---- MODULE Spec2Model ----
(***************************************************************************)
(* AQI dashboard pipeline: the combined weather + pollutant backfill       *)
(* (src/src/backfill/combined_backfill.py) and the record cleaners         *)
(* (src/src/feature_engineering/cleaning.py) as a state machine.           *)
(*                                                                         *)
(* Python values are modelled as integers.  Measured quantities are fixed  *)
(* point numbers in tenths; timestamps are whole seconds.  Three codes     *)
(* outside every numeric range stand for float('nan'), None and a value    *)
(* float()/int() cannot parse.  A dict is a TLA+ function whose DOMAIN is  *)
(* its key set; a dict whose key order matters (iteration order of         *)
(* weather_by_ts.keys()) is a sequence of [k, v] entries in first          *)
(* insertion order.  The empty function <<>> stands for both None and {}   *)
(* where the code only tests truthiness.                                   *)
(***************************************************************************)
EXTENDS Integers, Sequences, FiniteSets, TLC

\* ---------------------------------------------------------------- bounds
\* Longest weather result the bulk fetch returns.
MaxDays == 3
\* Weather timestamps are drawn from 1..MaxTs.
MaxTs == 3
\* A pollutant record's timestamp is within MaxSkew of the requested one.
MaxSkew == 1
\* Readings handed to the cleaners range over -MaxReading..MaxReading tenths,
\* next to the named examples.
MaxReading == 40
\* AQI values handed to categorize_aqi range up to MaxAqi tenths (320.0).
MaxAqi == 3200
\* The model files and registry entries an engine can load.
MaxModels == 2
\* A batch handed to predict has up to MaxBatch rows, each a feature value
\* in -MaxRow..MaxRow or a row the model cannot take.
MaxBatch == 2
MaxRow == 1

\* ------------------------------------------------------ program constants
\* time.sleep(1.2), in tenths of a second.
SLEEP_TENTHS == 12
\* pollutant_records[max(0, hist_index-10):hist_index]
HIST_WINDOW == 10

\* ------------------------------------------------------- value encoding
NaN == 0 - 9999
None == 0 - 9998
Unparsable == 0 - 9997

Abs(x) == IF x < 0 THEN 0 - x ELSE x
Max(a, b) == IF a > b THEN a ELSE b

\* ------------------------------------------------------------- cleaning
\* _is_nan(x): isinstance(x, float) and math.isnan(x)
_is_nan(x) == x = NaN

\* dict.get(key): the value, or None when the key is absent
Get(rec, key) == IF key \in DOMAIN rec THEN rec[key] ELSE None

\* Python's builtin max(a, b) / min(a, b) on floats: the first argument is
\* kept unless the second compares strictly greater / smaller; every
\* comparison with nan is False.
PyMax(a, b) == IF a = NaN \/ b = NaN THEN a ELSE IF b > a THEN b ELSE a
PyMin(a, b) == IF a = NaN \/ b = NaN THEN a ELSE IF b < a THEN b ELSE a

\* out[key] = value
SetKey(rec, key, value) == [k \in DOMAIN rec \cup {key} |-> IF k = key THEN value ELSE rec[k]]

\* for k, v in list(out.items()): if _is_nan(v): out[k] = None
NanToNone(rec) == [k \in DOMAIN rec |-> IF _is_nan(rec[k]) THEN None ELSE rec[k]]

\* Mutant: max(0, float(h)), the upper limit forgotten.
ClampHumidity_NoUpper(rec) ==
    LET h == IF "humidity" \in DOMAIN rec THEN rec["humidity"] ELSE None
    IN IF h = None THEN rec
       ELSE IF h = Unparsable THEN [rec EXCEPT !["humidity"] = None]
       ELSE [rec EXCEPT !["humidity"] = IF h = NaN \/ h < 0 THEN 0 ELSE h]

\* try: out[key] = max(0, min(100, float(h))) except: out[key] = None
ClampHumidity(rec) ==
    LET h == Get(rec, "humidity")
    IN IF h = None THEN rec
       ELSE IF h = Unparsable THEN SetKey(rec, "humidity", None)
       ELSE SetKey(rec, "humidity", PyMax(0, PyMin(1000, h)))

\* try: out[key] = max(0.0, float(v)) except: out[key] = None
ClampNonNegative(rec, key) ==
    LET v == Get(rec, key)
    IN IF v = None THEN rec
       ELSE IF v = Unparsable THEN SetKey(rec, key, None)
       ELSE SetKey(rec, key, PyMax(0, v))

clean_weather_record(rec) ==
    NanToNone(ClampNonNegative(ClampHumidity(rec), "visibility"))

CONCENTRATIONS == <<"co", "no", "no2", "o3", "so2", "pm2_5", "pm10", "nh3">>

\* Mutant: the last field of the tuple, nh3, is left out.
RECURSIVE ClampAll_WithoutLast(_, _)
ClampAll_WithoutLast(rec, n) ==
    IF n = 0 THEN rec
    ELSE IF n = Len(CONCENTRATIONS) THEN ClampAll_WithoutLast(rec, n - 1)
    ELSE ClampNonNegative(ClampAll_WithoutLast(rec, n - 1), CONCENTRATIONS[n])

RECURSIVE ClampAll(_, _)
ClampAll(rec, n) ==
    IF n = 0 THEN rec
    ELSE ClampNonNegative(ClampAll(rec, n - 1), CONCENTRATIONS[n])

\* int(aqi): truncation toward zero of a number (in tenths here); nan and
\* unparsable values raise.
PyInt(v) == IF v >= 0 THEN v \div 10 ELSE 0 - ((0 - v) \div 10)

\* aqi_i = int(aqi); out["aqi"] = aqi_i if 1 <= aqi_i <= 5 else None
CleanAqi(rec) ==
    LET aqi == Get(rec, "aqi")
    IN IF aqi = None THEN rec
       ELSE IF aqi = Unparsable \/ aqi = NaN THEN SetKey(rec, "aqi", None)
       ELSE SetKey(rec, "aqi",
                   IF 1 <= PyInt(aqi) /\ PyInt(aqi) <= 5 THEN 10 * PyInt(aqi) ELSE None)

clean_pollutant_record(rec) ==
    CleanAqi(ClampAll(NanToNone(rec), Len(CONCENTRATIONS)))

\* Mutant: out = rec, the writes to out reach the caller's record.
CallerRecordAfter_Aliased(rec, out) == out

\* out = dict(rec): the cleaners write to a copy, so the caller's record is
\* after the call what it was before.
CallerRecordAfter(rec, out) == rec

\* ------------------------------------------------- insertion-ordered dict
DictKeys(d) == [n \in 1..Len(d) |-> d[n].k]
DictHas(d, key) == \E n \in 1..Len(d) : d[n].k = key
\* d.get(key): the value, or the falsy <<>> when the key is absent
DictGet(d, key) == IF DictHas(d, key) THEN d[CHOOSE n \in 1..Len(d) : d[n].k = key].v ELSE <<>>
\* Mutant: d.setdefault(key, value), the first value written stays.
DictSet_KeepFirst(d, key, value) ==
    IF \E n \in 1..Len(d) : d[n].k = key THEN d ELSE Append(d, [k |-> key, v |-> value])

\* d[key] = value: an existing key keeps its position, a new key goes last
DictSet(d, key, value) ==
    IF DictHas(d, key)
    THEN [n \in 1..Len(d) |-> IF d[n].k = key THEN [k |-> key, v |-> value] ELSE d[n]]
    ELSE Append(d, [k |-> key, v |-> value])

\* ------------------------------------------------------------ backfill
\* for rec in weather_records: weather_by_ts[rec["timestamp"]] = rec
RECURSIVE BuildWeatherByTs(_, _)
BuildWeatherByTs(recs, n) ==
    IF n = 0 THEN <<>>
    ELSE DictSet(BuildWeatherByTs(recs, n - 1), recs[n]["timestamp"], recs[n])

\* Mutant: key=lambda t: t - p_ts, the abs() forgotten.
Distance_Signed(t, p_ts) == t - p_ts

\* key=lambda t: abs(t - p_ts)
Distance(t, p_ts) == Abs(t - p_ts)

\* Mutant: of several keys of least distance the last one is taken.
ClosestTs_LastOnTie(keys, p_ts) ==
    keys[CHOOSE n \in 1..Len(keys) :
            \A m \in 1..Len(keys) :
                \/ Distance(keys[m], p_ts) > Distance(keys[n], p_ts)
                \/ (Distance(keys[m], p_ts) = Distance(keys[n], p_ts) /\ m <= n)]

\* min(keys, key=...): the first key, in iteration order, of least distance
ClosestTs(keys, p_ts) ==
    keys[CHOOSE n \in 1..Len(keys) :
            \A m \in 1..Len(keys) :
                \/ Distance(keys[m], p_ts) > Distance(keys[n], p_ts)
                \/ (Distance(keys[m], p_ts) = Distance(keys[n], p_ts) /\ m >= n)]

\* closest_ts of the n-th iteration of the matching loop
MatchedTs(wdict, precs) ==
    [n \in 1..Len(precs) |-> ClosestTs(DictKeys(wdict), precs[n]["timestamp"])]

\* Mutant: a timestamp that already holds a record keeps it.
RECURSIVE BuildPollutantByTs_KeepFirst(_, _, _)
BuildPollutantByTs_KeepFirst(wdict, precs, n) ==
    IF n = 0 THEN <<>>
    ELSE DictSet_KeepFirst(BuildPollutantByTs_KeepFirst(wdict, precs, n - 1),
                           ClosestTs(DictKeys(wdict), precs[n]["timestamp"]), precs[n])

\* for rec in pollutant_records: pollutant_by_ts[closest_ts] = rec
RECURSIVE BuildPollutantByTs(_, _, _)
BuildPollutantByTs(wdict, precs, n) ==
    IF n = 0 THEN <<>>
    ELSE DictSet(BuildPollutantByTs(wdict, precs, n - 1),
                 ClosestTs(DictKeys(wdict), precs[n]["timestamp"]), precs[n])

\* sorted(weather_by_ts.items()): ascending by key (keys are unique)
RECURSIVE InsertItem(_, _)
InsertItem(sorted, e) ==
    IF sorted = <<>> THEN <<e>>
    ELSE IF e.k < Head(sorted).k THEN <<e>> \o sorted
    ELSE <<Head(sorted)>> \o InsertItem(Tail(sorted), e)

RECURSIVE SortedItems(_, _)
SortedItems(d, n) ==
    IF n = 0 THEN <<>> ELSE InsertItem(SortedItems(d, n - 1), d[n])

\* s[a:b] for 0 <= a, 0 <= b (Python clamps both ends to len(s))
PySlice(s, a, b) ==
    LET hi == IF b > Len(s) THEN Len(s) ELSE b
    IN IF a >= hi THEN <<>> ELSE [n \in 1..(hi - a) |-> s[a + n]]

\* pollutant_records[max(0, hist_index-10):hist_index] if hist_index > 0 else []
HistSlice(precs, hist_index) ==
    IF hist_index > 0
    THEN PySlice(precs, Max(0, hist_index - HIST_WINDOW), hist_index)
    ELSE <<>>

\* compute_weather_features: the features of one cleaned weather record;
\* the record's timestamp is carried through.
compute_weather_features(weather_clean) ==
    [timestamp |-> weather_clean["timestamp"], obs |-> weather_clean["obs"]]

\* compute_pollutant_features: the features of one cleaned pollutant record,
\* with change rates taken against historical_data.
compute_pollutant_features(pollutant_clean, historical_data) ==
    [timestamp |-> pollutant_clean["timestamp"],
     day |-> pollutant_clean["day"],
     hist |-> historical_data]

\* f"pollutant_{k}"
PollutantKey(k) ==
    CASE k = "timestamp" -> "pollutant_timestamp"
      [] k = "day" -> "pollutant_day"
      [] k = "hist" -> "pollutant_hist"

\* Mutant: merged[k] = v, without the prefix and the timestamp guard.
MergeFeatures_NoPrefix(weather_features, pollutant_features) ==
    [key \in DOMAIN weather_features \cup DOMAIN pollutant_features |->
        IF key \in DOMAIN pollutant_features
        THEN pollutant_features[key] ELSE weather_features[key]]

\* Mutant: every pollutant key is prefixed and copied, the timestamp too.
MergeFeatures_KeepsTimestamp(weather_features, pollutant_features) ==
    LET keys == DOMAIN weather_features
                \cup {PollutantKey(k) : k \in DOMAIN pollutant_features}
    IN [key \in keys |->
            IF \E k \in DOMAIN pollutant_features : PollutantKey(k) = key
            THEN pollutant_features[CHOOSE k \in DOMAIN pollutant_features :
                                        PollutantKey(k) = key]
            ELSE weather_features[key]]

\* merged = {**weather_features}; merged[f"pollutant_{k}"] = v for k != "timestamp"
MergeFeatures(weather_features, pollutant_features) ==
    LET pkeys == {k \in DOMAIN pollutant_features : k # "timestamp"}
        keys == DOMAIN weather_features \cup {PollutantKey(k) : k \in pkeys}
    IN [key \in keys |->
            IF \E k \in pkeys : PollutantKey(k) = key
            THEN pollutant_features[CHOOSE k \in pkeys : PollutantKey(k) = key]
            ELSE weather_features[key]]

\* One iteration of the merge loop: i is the 0-based position of (ts,
\* weather_raw) in sorted(weather_by_ts.items()).
MergedRow(i, ts, weather_raw, pdict, precs) ==
    LET weather_clean == clean_weather_record(weather_raw)
        pollutant_raw == DictGet(pdict, ts)
        pollutant_clean == IF pollutant_raw # <<>>
                           THEN clean_pollutant_record(pollutant_raw) ELSE <<>>
        weather_features == compute_weather_features(weather_clean)
        hist_index == i
        pollutant_features ==
            IF pollutant_clean # <<>>
            THEN compute_pollutant_features(pollutant_clean, HistSlice(precs, hist_index))
            ELSE <<>>
    IN MergeFeatures(weather_features, pollutant_features)

\* combined_rows after the merge loop
CombinedRows(wdict, pdict, precs) ==
    LET items == SortedItems(wdict, Len(wdict))
    IN [n \in 1..Len(items) |-> MergedRow(n - 1, items[n].k, items[n].v, pdict, precs)]

\* df.columns: the union of the rows' keys
HasColumn(rows, col) == \E n \in 1..Len(rows) : col \in DOMAIN rows[n]

\* df.sort_values("timestamp"): ascending, rows of equal timestamp keep
\* their order
RECURSIVE InsertRow(_, _)
InsertRow(sorted, r) ==
    IF sorted = <<>> THEN <<r>>
    ELSE IF r["timestamp"] < Head(sorted)["timestamp"] THEN <<r>> \o sorted
    ELSE <<Head(sorted)>> \o InsertRow(Tail(sorted), r)

RECURSIVE sort_values(_, _)
sort_values(rows, n) ==
    IF n = 0 THEN <<>> ELSE InsertRow(sort_values(rows, n - 1), rows[n])

\* df.drop_duplicates(subset=["timestamp"], keep="last")
RECURSIVE drop_duplicates(_)
drop_duplicates(rows) ==
    IF rows = <<>> THEN <<>>
    ELSE IF \E n \in 2..Len(rows) : rows[n]["timestamp"] = Head(rows)["timestamp"]
         THEN drop_duplicates(Tail(rows))
         ELSE <<Head(rows)>> \o drop_duplicates(Tail(rows))

\* if "timestamp" in df.columns: df = df.sort_values(...).drop_duplicates(...)
SortDedup(rows) ==
    IF HasColumn(rows, "timestamp")
    THEN drop_duplicates(sort_values(rows, Len(rows)))
    ELSE rows

\* df.sort_values("timestamp") with the default kind="quicksort", which is
\* not stable: every ascending arrangement of the rows is a possible result.
SortedOrders(rows) ==
    LET n == Len(rows)
        perms == {f \in [1..n -> 1..n] : \A a, b \in 1..n : a # b => f[a] # f[b]}
    IN {[k \in 1..n |-> rows[f[k]]] : f \in
            {g \in perms : \A a, b \in 1..n :
                a < b => rows[g[a]]["timestamp"] <= rows[g[b]]["timestamp"]}}

\* Mutant: consecutive duplicates are dropped (keeping the later one) before
\* the table is sorted.
SortDedupOutcomes_AdjacentFirst(rows) ==
    IF HasColumn(rows, "timestamp")
    THEN LET kept == {n \in 1..Len(rows) :
                        n = Len(rows) \/ rows[n]["timestamp"] # rows[n + 1]["timestamp"]}
             pos(k) == CHOOSE n \in kept : Cardinality({m \in kept : m <= n}) = k
         IN SortedOrders([k \in 1..Cardinality(kept) |-> rows[pos(k)]])
    ELSE {rows}

\* Lines 148-149: every table the sort and deduplication step can produce.
SortDedupOutcomes(rows) ==
    IF HasColumn(rows, "timestamp")
    THEN {drop_duplicates(sorted) : sorted \in SortedOrders(rows)}
    ELSE {rows}

\* -------------------------------------------------------------- inputs
Timestamps == 1..MaxTs

\* Tables of rows handed to the sort and deduplication step: rows with a
\* timestamp, possibly repeated and in any order, or rows without that column.
Tables ==
    UNION {{[n \in 1..Len(tss) |-> [timestamp |-> tss[n], obs |-> n]] : tss \in [1..m -> Timestamps]}
           \cup {[n \in 1..m |-> [obs |-> n]]} : m \in 0..MaxDays}

\* ------------------------------------------------- inference/predictor.py
\* aqi_value <= bound in Python: false whenever aqi_value is NaN.
PyLe(v, bound) == v # NaN /\ v <= bound

\* One of the six dictionaries categorize_aqi returns (strings as in the
\* source, less the pictographs that open the last message and the alert).
Band(category, level, color, message, is_hazardous) ==
    [category |-> category, level |-> level, color |-> color,
     message |-> message, is_hazardous |-> is_hazardous]

GOOD == Band("Good", 1, "#00e400",
    "Air quality is satisfactory, and air pollution poses little or no risk.", FALSE)
MODERATE == Band("Moderate", 2, "#ffff00",
    "Air quality is acceptable. However, there may be a risk for some people.", FALSE)
SENSITIVE == Band("Unhealthy for Sensitive Groups", 3, "#ff7e00",
    "Members of sensitive groups may experience health effects.", FALSE)
\* Mutant: the Unhealthy band is not flagged.
UNHEALTHY_NotFlagged == Band("Unhealthy", 4, "#ff0000",
    "Some members of the general public may experience health effects.", FALSE)

UNHEALTHY == Band("Unhealthy", 4, "#ff0000",
    "Some members of the general public may experience health effects.", TRUE)
VERY_UNHEALTHY == Band("Very Unhealthy", 5, "#8f3f97",
    "Health alert: The risk of health effects is increased for everyone.", TRUE)
HAZARDOUS == Band("Hazardous", 6, "#7e0023",
    "HEALTH WARNING: Everyone may experience serious health effects.", TRUE)

\* Mutant: the comparisons are strict, a boundary falls into the upper band.
categorize_aqi_Strict(aqi_value) ==
    IF aqi_value # NaN /\ aqi_value < 500 THEN GOOD
    ELSE IF aqi_value # NaN /\ aqi_value < 1000 THEN MODERATE
    ELSE IF aqi_value # NaN /\ aqi_value < 1500 THEN SENSITIVE
    ELSE IF aqi_value # NaN /\ aqi_value < 2000 THEN UNHEALTHY
    ELSE IF aqi_value # NaN /\ aqi_value < 3000 THEN VERY_UNHEALTHY
    ELSE HAZARDOUS

\* The if/elif chain of categorize_aqi; aqi_value is in tenths.
categorize_aqi(aqi_value) ==
    IF PyLe(aqi_value, 500) THEN GOOD
    ELSE IF PyLe(aqi_value, 1000) THEN MODERATE
    ELSE IF PyLe(aqi_value, 1500) THEN SENSITIVE
    ELSE IF PyLe(aqi_value, 2000) THEN UNHEALTHY
    ELSE IF PyLe(aqi_value, 3000) THEN VERY_UNHEALTHY
    ELSE HAZARDOUS

\* f"{aqi_value:.0f}": the nearest whole number, a tie going to the even one;
\* NaN prints as nan.
FormatWhole(v) ==
    IF v = NaN THEN NaN
    ELSE LET q == v \div 10
             r == v % 10
         IN IF r < 5 THEN q
            ELSE IF r > 5 THEN q + 1
            ELSE IF q % 2 = 0 THEN q ELSE q + 1

\* Mutant: the alert names the band of the last branch, whatever the value.
Alert_FixedLabel(info, aqi_value) ==
    [category |-> "Hazardous", aqi |-> FormatWhole(aqi_value), message |-> info.message]

\* The alert string, by its parts: "ALERT: Air quality is {category}
\* (AQI: {aqi}). {message}".
Alert(info, aqi_value) ==
    [category |-> info.category, aqi |-> FormatWhole(aqi_value), message |-> info.message]

\* Mutant: the alert is kept for the bands above 200 only.
generate_aqi_alert_Above200(aqi_value) ==
    LET info == categorize_aqi(aqi_value)
    IN IF info.level >= 5 THEN Alert(info, aqi_value) ELSE <<>>

\* info = categorize_aqi(aqi_value); the alert if info['is_hazardous'],
\* None (<<>>) otherwise.
generate_aqi_alert(aqi_value) ==
    LET info == categorize_aqi(aqi_value)
    IN IF info.is_hazardous THEN Alert(info, aqi_value) ELSE <<>>

\* Raw field values handed to the cleaners: readings in tenths, float('nan'),
\* None, and text that is no number.
Absent == 0 - 9996
Specials == {NaN, None, Unparsable}
Readings == ((0 - MaxReading)..MaxReading) \cup {0 - 50, 0 - 32, 400, 999, 1000, 1001, 1500}
ManyValues == Readings \cup Specials \cup {Absent}
FewValues == {Absent, NaN, None, Unparsable, 0 - 30, 250}

\* rec with key set to value, or rec itself for an absent field
WithField(rec, key, value) == IF value = Absent THEN rec ELSE SetKey(rec, key, value)

\* Raw weather records: humidity and visibility present or not, one of them
\* over all values; temp stands for every field the cleaner does not clamp.
WeatherInputs ==
    {WithField(WithField(WithField([timestamp |-> 1], "humidity", hv[1]),
                         "visibility", hv[2]), "temp", x) :
        hv \in (ManyValues \X FewValues) \cup (FewValues \X ManyValues),
        x \in {215, NaN, None, Unparsable}}

\* A raw pollutant record: concentration field k holds c, the seven others
\* hold w, aqi holds a; station stands for every other field.
PollutantInput(k, c, w, a, x) ==
    LET value(f) == IF f = "timestamp" THEN 1
                    ELSE IF f = "aqi" THEN a
                    ELSE IF f = "station" THEN x
                    ELSE IF f = k THEN c ELSE w
        fields == {"timestamp", "aqi", "station"}
                  \cup {CONCENTRATIONS[n] : n \in 1..Len(CONCENTRATIONS)}
    IN [f \in {g \in fields : value(g) # Absent} |-> value(f)]

AqiValues == ((0 - 20)..70) \cup Specials \cup {Absent}

PollutantInputs ==
    {PollutantInput(CONCENTRATIONS[n], c, w, a, x) :
        n \in 1..Len(CONCENTRATIONS), c \in ManyValues,
        w \in {Absent, Unparsable, 0 - 10, 120}, a \in {Absent, 30}, x \in {7, NaN}}
    \cup {PollutantInput("co", c, c, a, 7) : c \in {NaN, 0 - 10, 120}, a \in AqiValues}

\* AQI values handed to categorize_aqi and generate_aqi_alert, in tenths.
AqiInputs == ((0 - 100)..MaxAqi) \cup {NaN}

\* What fetch_openmeteo_bulk can return: one record per day, in any order,
\* timestamps possibly repeated; obs identifies the day's observation.
WeatherResults ==
    UNION {[1..n -> Timestamps] : n \in 0..MaxDays}

WeatherRecords(tss) == [n \in 1..Len(tss) |-> [timestamp |-> tss[n], obs |-> n]]

\* What fetch_pollutant_historical(dt_unix=target_ts) can return for the
\* day-th call: nothing, a record without a timestamp, or a record whose
\* timestamp is near the requested one (0 is a falsy timestamp).
PollutantReturns(target_ts, day) ==
    {<<>>, [day |-> day]}
    \cup {[timestamp |-> p, day |-> day] :
            p \in {q \in (target_ts - MaxSkew)..(target_ts + MaxSkew) : q >= 0}}

\* raw_p and raw_p.get("timestamp")
Usable(raw_p) == raw_p # <<>> /\ Get(raw_p, "timestamp") # None /\ Get(raw_p, "timestamp") # 0

\* --------------------------------------------------------------- state
VARIABLES
    pc,                \* position in run_combined_backfill
    weather_status,    \* whether fetch_openmeteo_bulk returned or raised
    weather_records,   \* result of fetch_openmeteo_bulk
    weather_by_ts,     \* timestamp -> weather record
    i,                 \* enumerate(weather_records, 1): iterations started
    fetch_result,      \* outcome of the current iteration's pollutant fetch
    pollutant_records, \* usable pollutant records, in fetch order
    success,
    failed,
    requested,         \* dt_unix of every pollutant fetch issued, in order
    sleeps,            \* duration of every completed time.sleep, in order
    matched_ts,        \* closest_ts of every iteration of the matching loop
    pollutant_by_ts,   \* weather timestamp -> pollutant record
    combined_rows,
    df,                \* the table the function returns
    output_csv,        \* every table written to the output file, in order
    call,              \* a call of one of the pure functions: its name and argument
    ret,               \* what that call returned
    arg_after,         \* the caller's argument object once the call is over
    model,             \* AQIInferenceEngine.model
    feature_names,     \* AQIInferenceEngine.feature_names
    last_loaded,       \* the model the last successful load produced
    outcome,           \* how the engine's last operation ended
    dash_pc,           \* position in one run of the dashboard script
    dash_input,        \* what this run finds: files, widgets, the model's conduct
    dash_engine,       \* what the dashboard's load_model() returned
    screen             \* what the dashboard has displayed, in order

run_vars == <<pc, weather_status, weather_records, weather_by_ts, i, fetch_result,
              pollutant_records, success, failed, requested, sleeps, matched_ts,
              pollutant_by_ts, combined_rows, df, output_csv>>

engine_vars == <<model, feature_names, last_loaded, outcome>>

dash_vars == <<dash_pc, dash_input, dash_engine, screen>>

vars == <<run_vars, call, ret, arg_after, engine_vars, dash_vars>>

\* No pure function called.
NoCall == [fn |-> "none", state |-> "none"]

\* No fetch made yet / no table built yet.
NoFetch == [kind |-> "none"]
NoTable == <<"unset">>

\* run_combined_backfill is entered: nothing fetched, nothing written.
RunInit ==
    /\ pc = "start"
    /\ weather_status = "pending"
    /\ weather_records = <<>>
    /\ weather_by_ts = <<>>
    /\ i = 0
    /\ fetch_result = NoFetch
    /\ pollutant_records = <<>>
    /\ success = 0
    /\ failed = 0
    /\ requested = <<>>
    /\ sleeps = <<>>
    /\ matched_ts = <<>>
    /\ pollutant_by_ts = <<>>
    /\ combined_rows = <<>>
    /\ df = NoTable
    /\ output_csv = <<>>

\* No pure function under call.
CallIdle ==
    /\ call = NoCall
    /\ ret = <<>>
    /\ arg_after = <<>>

\* No inference engine constructed.
EngineIdle ==
    /\ model = <<>>
    /\ feature_names = <<>>
    /\ last_loaded = <<>>
    /\ outcome = [op |-> "none"]

\* The dashboard script is not running.
DashIdle ==
    /\ dash_pc = "off"
    /\ dash_input = <<>>
    /\ dash_engine = <<>>
    /\ screen = <<>>

Init ==
    /\ RunInit
    /\ CallIdle
    /\ EngineIdle
    /\ DashIdle

\* Step 1, lines 47-58: the bulk fetch returns; weather_by_ts is built.
FetchWeatherOk ==
    /\ pc = "start"
    /\ \E tss \in WeatherResults :
        /\ weather_records' = WeatherRecords(tss)
        /\ weather_by_ts' = BuildWeatherByTs(WeatherRecords(tss), Len(tss))
    /\ weather_status' = "ok"
    /\ pc' = "fetch"
    /\ UNCHANGED <<engine_vars, dash_vars, call, ret, arg_after, i, fetch_result, pollutant_records, success, failed, requested,
                   sleeps, matched_ts, pollutant_by_ts, combined_rows, df, output_csv>>

\* Mutant: the handler logs the error and carries on with a one-day result
\* instead of returning.
FetchWeatherRaise_Continue ==
    /\ pc = "start"
    /\ weather_status' = "raised"
    /\ weather_records' = WeatherRecords(<<1>>)
    /\ weather_by_ts' = BuildWeatherByTs(WeatherRecords(<<1>>), 1)
    /\ pc' = "fetch"
    /\ UNCHANGED <<engine_vars, dash_vars, call, ret, arg_after, i, fetch_result, pollutant_records, success, failed, requested,
                   sleeps, matched_ts, pollutant_by_ts, combined_rows, df, output_csv>>

\* Lines 50-52: the bulk fetch raises; return pd.DataFrame().
FetchWeatherRaise ==
    /\ pc = "start"
    /\ weather_status' = "raised"
    /\ df' = <<>>
    /\ pc' = "done"
    /\ UNCHANGED <<engine_vars, dash_vars, call, ret, arg_after, weather_records, weather_by_ts, i, fetch_result, pollutant_records,
                   success, failed, requested, sleeps, matched_ts, pollutant_by_ts,
                   combined_rows, output_csv>>

\* Lines 81-86: the fetch returned raw_p.  (last_pollutant_raws receives the
\* same appends as pollutant_records and is never read.)
AfterReturn(raw_p) ==
    IF Usable(raw_p)
    THEN /\ pollutant_records' = Append(pollutant_records, raw_p)
         /\ success' = success + 1
         /\ failed' = failed
         /\ pc' = "sleep"
    ELSE /\ pollutant_records' = pollutant_records
         /\ success' = success
         /\ failed' = failed + 1
         /\ pc' = "sleep"

\* Mutant: the handler logs the failure without counting it.
AfterRaise_NotCounted ==
    /\ pollutant_records' = pollutant_records
    /\ success' = success
    /\ failed' = failed
    /\ pc' = "sleep"

\* Mutant: the handler ends in `continue`, skipping the sleep.
AfterRaise_Continue ==
    /\ pollutant_records' = pollutant_records
    /\ success' = success
    /\ failed' = failed + 1
    /\ pc' = "fetch"

\* Mutant: no handler, the exception leaves run_combined_backfill.
AfterRaise_Abort ==
    /\ pollutant_records' = pollutant_records
    /\ success' = success
    /\ failed' = failed
    /\ pc' = "aborted"

\* Lines 88-90: the fetch raised; the handler counts it and falls through
\* to the sleep.
AfterRaise ==
    /\ pollutant_records' = pollutant_records
    /\ success' = success
    /\ failed' = failed + 1
    /\ pc' = "sleep"

\* Mutant: the timestamp of the record before the current one.
TargetTs_Previous(recs, n) == recs[IF n > 1 THEN n - 1 ELSE n]["timestamp"]

\* Line 70: target_ts = weather_rec["timestamp"] of the n-th record
TargetTs(recs, n) == recs[n]["timestamp"]

\* Lines 69-90: one iteration of the pollutant loop up to the sleep.
FetchPollutant ==
    /\ pc = "fetch"
    /\ i < Len(weather_records)
    /\ i' = i + 1
    /\ LET target_ts == TargetTs(weather_records, i + 1)
       IN /\ requested' = Append(requested, target_ts)
          /\ \/ \E raw_p \in PollutantReturns(target_ts, i + 1) :
                   /\ fetch_result' = [kind |-> "return", value |-> raw_p]
                   /\ AfterReturn(raw_p)
             \/ /\ fetch_result' = [kind |-> "raise"]
                /\ AfterRaise
    /\ UNCHANGED <<engine_vars, dash_vars, call, ret, arg_after, weather_status, weather_records, weather_by_ts, sleeps, matched_ts, pollutant_by_ts,
                   combined_rows, df, output_csv>>

\* Line 98: time.sleep(1.2) ends the iteration, whatever the fetch did.
Sleep ==
    /\ pc = "sleep"
    /\ sleeps' = Append(sleeps, SLEEP_TENTHS)
    /\ pc' = "fetch"
    /\ UNCHANGED <<engine_vars, dash_vars, call, ret, arg_after, weather_status, weather_records, weather_by_ts, i, fetch_result, pollutant_records,
                   success, failed, requested, matched_ts, pollutant_by_ts,
                   combined_rows, df, output_csv>>

\* Lines 100-108: the loop is exhausted; match every pollutant record to
\* its nearest weather timestamp.
Match ==
    /\ pc = "fetch"
    /\ i = Len(weather_records)
    /\ matched_ts' = MatchedTs(weather_by_ts, pollutant_records)
    /\ pollutant_by_ts' =
            BuildPollutantByTs(weather_by_ts, pollutant_records, Len(pollutant_records))
    /\ pc' = "merge"
    /\ UNCHANGED <<engine_vars, dash_vars, call, ret, arg_after, weather_status, weather_records, weather_by_ts, i, fetch_result, pollutant_records,
                   success, failed, requested, sleeps, combined_rows, df, output_csv>>

\* Mutant: the merged rows are also written to the file as a checkpoint.
Merge_Checkpoint ==
    /\ pc = "merge"
    /\ combined_rows' = CombinedRows(weather_by_ts, pollutant_by_ts, pollutant_records)
    /\ output_csv' = Append(output_csv, combined_rows')
    /\ pc' = "dedup"
    /\ UNCHANGED <<engine_vars, dash_vars, call, ret, arg_after, weather_status, weather_records, weather_by_ts, i,
                   fetch_result, pollutant_records, success, failed, requested, sleeps,
                   matched_ts, pollutant_by_ts, df>>

\* Lines 113-142: one merged row per weather timestamp, ascending.
Merge ==
    /\ pc = "merge"
    /\ combined_rows' = CombinedRows(weather_by_ts, pollutant_by_ts, pollutant_records)
    /\ pc' = "dedup"
    /\ UNCHANGED <<engine_vars, dash_vars, call, ret, arg_after, weather_status, weather_records, weather_by_ts, i, fetch_result, pollutant_records,
                   success, failed, requested, sleeps, matched_ts, pollutant_by_ts,
                   df, output_csv>>

\* Lines 145-149: build the table, sort and deduplicate it.
BuildTable ==
    /\ pc = "dedup"
    /\ df' = SortDedup(combined_rows)
    /\ pc' = "save"
    /\ UNCHANGED <<engine_vars, dash_vars, call, ret, arg_after, weather_status, weather_records, weather_by_ts, i, fetch_result, pollutant_records,
                   success, failed, requested, sleeps, matched_ts, pollutant_by_ts,
                   combined_rows, output_csv>>

\* Lines 154-160: df.to_csv succeeds; return df.
SaveOk ==
    /\ pc = "save"
    /\ output_csv' = Append(output_csv, df)
    /\ pc' = "done"
    /\ UNCHANGED <<engine_vars, dash_vars, call, ret, arg_after, weather_status, weather_records, weather_by_ts, i, fetch_result, pollutant_records,
                   success, failed, requested, sleeps, matched_ts, pollutant_by_ts,
                   combined_rows, df>>

\* Lines 157-160: df.to_csv raises, the error is logged; return df.
SaveFails ==
    /\ pc = "save"
    /\ pc' = "done"
    /\ UNCHANGED <<engine_vars, dash_vars, call, ret, arg_after, weather_status, weather_records, weather_by_ts, i, fetch_result, pollutant_records,
                   success, failed, requested, sleeps, matched_ts, pollutant_by_ts,
                   combined_rows, df, output_csv>>

Next ==
    \/ FetchWeatherOk
    \/ FetchWeatherRaise
    \/ FetchPollutant
    \/ Sleep
    \/ Match
    \/ Merge
    \/ BuildTable
    \/ SaveOk
    \/ SaveFails

Spec == Init /\ [][Next]_vars

\* ------------------------------------------------- the pure functions
\* A pure function about to be entered with an argument.
Enter(f, args) == {[fn |-> f, state |-> "called", arg |-> x] : x \in args}

Calls ==
    Enter("sort_dedup", Tables)
    \cup Enter("clean_weather_record", WeatherInputs)
    \cup Enter("clean_pollutant_record", PollutantInputs)
    \cup Enter("categorize_aqi", AqiInputs)
    \cup Enter("generate_aqi_alert", AqiInputs)

\* One call of one pure function on one input, not yet run.
CallInit ==
    /\ RunInit
    /\ call \in Calls
    /\ ret = <<>>
    /\ arg_after = <<>>
    /\ EngineIdle
    /\ DashIdle

Pending(f) == call.fn = f /\ call.state = "called"

\* Lines 147-149 applied to a table of rows.
CallSortDedup ==
    /\ Pending("sort_dedup")
    /\ \E out \in SortDedupOutcomes(call.arg) : ret' = out
    /\ call' = [call EXCEPT !.state = "returned"]
    /\ arg_after' = call.arg
    /\ UNCHANGED <<run_vars, engine_vars, dash_vars>>

\* clean_weather_record(rec) on a raw weather record.
CallCleanWeather ==
    /\ Pending("clean_weather_record")
    /\ ret' = clean_weather_record(call.arg)
    /\ call' = [call EXCEPT !.state = "returned"]
    /\ arg_after' = CallerRecordAfter(call.arg, clean_weather_record(call.arg))
    /\ UNCHANGED <<run_vars, engine_vars, dash_vars>>

\* clean_pollutant_record(rec) on a raw pollutant record.
CallCleanPollutant ==
    /\ Pending("clean_pollutant_record")
    /\ ret' = clean_pollutant_record(call.arg)
    /\ call' = [call EXCEPT !.state = "returned"]
    /\ arg_after' = CallerRecordAfter(call.arg, clean_pollutant_record(call.arg))
    /\ UNCHANGED <<run_vars, engine_vars, dash_vars>>

\* categorize_aqi(aqi_value)
CallCategorizeAqi ==
    /\ Pending("categorize_aqi")
    /\ ret' = categorize_aqi(call.arg)
    /\ call' = [call EXCEPT !.state = "returned"]
    /\ arg_after' = call.arg
    /\ UNCHANGED <<run_vars, engine_vars, dash_vars>>

\* generate_aqi_alert(aqi_value)
CallGenerateAlert ==
    /\ Pending("generate_aqi_alert")
    /\ ret' = generate_aqi_alert(call.arg)
    /\ call' = [call EXCEPT !.state = "returned"]
    /\ arg_after' = call.arg
    /\ UNCHANGED <<run_vars, engine_vars, dash_vars>>

CallNext ==
    \/ CallSortDedup
    \/ CallCleanWeather
    \/ CallCleanPollutant
    \/ CallCategorizeAqi
    \/ CallGenerateAlert

\* Every pure function, called on every input of the bounded sets.
CallSpec == CallInit /\ [][CallNext]_vars

\* f was called and has returned: call.arg went in, ret came out.
Called(f) == call.fn = f /\ call.state = "returned"

\* ------------------------------------- inference/predictor.py: the engine
\* A loaded model object: some carry a feature_names_ attribute, some not.
FeatureNamesOf(k) == [n \in 1..k |-> "feature"]

Models ==
    {[id |-> k] : k \in 1..MaxModels}
    \cup {[id |-> k, feature_names_ |-> FeatureNamesOf(k)] : k \in 1..MaxModels}

\* A row the loaded model rejects (a missing or mistyped feature).
BadRow == 0 - 9995
Rows == ((0 - MaxRow)..MaxRow) \cup {BadRow}

RECURSIVE SeqsUpTo(_, _)
SeqsUpTo(S, n) ==
    IF n = 0 THEN {<<>>}
    ELSE LET shorter == SeqsUpTo(S, n - 1)
         IN shorter \cup {Append(q, x) : q \in {r \in shorter : Len(r) = n - 1}, x \in S}

\* The DataFrames handed to predict: at least one row.
Batches == SeqsUpTo(Rows, MaxBatch) \ {<<>>}

\* self.model.predict(features): one prediction (in tenths) per row, or an
\* exception when the model rejects a row.
ModelPredict(m, features) ==
    IF \E n \in 1..Len(features) : features[n] = BadRow
    THEN [raised |-> TRUE]
    ELSE [raised |-> FALSE,
          value |-> [n \in 1..Len(features) |-> m.id * 1000 * features[n]]]

\* What joblib.load / load_model_from_registry does: raise, or hand back a model.
LoadResults == {[raised |-> TRUE]} \cup {[raised |-> FALSE, value |-> m] : m \in Models}

NOT_LOADED == "Model not loaded. Call load_model() first."

\* How an operation ended: the exception it raised or the value it returned,
\* and the calls of model.predict it made.
Raises(op, features, error, invoked) ==
    [op |-> op, features |-> features, result |-> "raised", error |-> error, invoked |-> invoked]
Returns(op, features, value, invoked) ==
    [op |-> op, features |-> features, result |-> "returned", value |-> value, invoked |-> invoked]

Invocation(m, features) == [model |-> m, features |-> features]

\* hasattr(self.model, 'feature_names_')
HasFeatureNames(m) == "feature_names_" \in DOMAIN m

\* Mutant: the model attribute is cleared when the load raises.
LoadModel_ClearsOnFailure ==
    \E loaded \in LoadResults :
        /\ IF loaded.raised
           THEN /\ model' = <<>>
                /\ outcome' = Raises("load_model", <<>>, "load", <<>>)
                /\ UNCHANGED <<feature_names, last_loaded>>
           ELSE /\ model' = loaded.value
                /\ feature_names' = IF HasFeatureNames(loaded.value)
                                     THEN loaded.value.feature_names_
                                     ELSE feature_names
                /\ last_loaded' = loaded.value
                /\ outcome' = Returns("load_model", <<>>, <<>>, <<>>)
        /\ UNCHANGED <<run_vars, call, ret, arg_after, dash_vars>>

\* load_model(model_path): self.model = joblib.load(model_path); feature_names
\* is assigned only if the model has feature_names_; an exception is logged
\* and re-raised.
LoadModel ==
    \E loaded \in LoadResults :
        /\ IF loaded.raised
           THEN /\ outcome' = Raises("load_model", <<>>, "load", <<>>)
                /\ UNCHANGED <<model, feature_names, last_loaded>>
           ELSE /\ model' = loaded.value
                /\ feature_names' = IF HasFeatureNames(loaded.value)
                                     THEN loaded.value.feature_names_
                                     ELSE feature_names
                /\ last_loaded' = loaded.value
                /\ outcome' = Returns("load_model", <<>>, <<>>, <<>>)
        /\ UNCHANGED <<run_vars, call, ret, arg_after, dash_vars>>

\* load_from_registry(model_name, version): self.model, metadata =
\* load_model_from_registry(...); feature_names is not touched.
LoadFromRegistry ==
    \E loaded \in LoadResults :
        /\ IF loaded.raised
           THEN /\ outcome' = Raises("load_from_registry", <<>>, "load", <<>>)
                /\ UNCHANGED <<model, last_loaded>>
           ELSE /\ model' = loaded.value
                /\ last_loaded' = loaded.value
                /\ outcome' = Returns("load_from_registry", <<>>, <<>>, <<>>)
        /\ UNCHANGED <<feature_names, run_vars, call, ret, arg_after, dash_vars>>

\* Mutant: no check that a model is loaded; with none, a default comes back.
predict_NoCheck(m, op, features) ==
    IF m = <<>> THEN Returns(op, features, [n \in 1..Len(features) |-> 0], <<>>)
    ELSE LET r == ModelPredict(m, features)
         IN IF r.raised
            THEN Raises(op, features, "model", <<Invocation(m, features)>>)
            ELSE Returns(op, features, r.value, <<Invocation(m, features)>>)

\* Mutant: a failure of the model is logged and a default returned.
predict_Default(m, op, features) ==
    IF m = <<>> THEN Raises(op, features, NOT_LOADED, <<>>)
    ELSE LET r == ModelPredict(m, features)
         IN IF r.raised
            THEN Returns(op, features, [n \in 1..Len(features) |-> 0], <<Invocation(m, features)>>)
            ELSE Returns(op, features, r.value, <<Invocation(m, features)>>)

\* predict(features) on an engine whose model attribute is m, called within
\* operation op: ValueError if m is None, else self.model.predict(features),
\* whose exception is logged and re-raised.
predict(m, op, features) ==
    IF m = <<>> THEN Raises(op, features, NOT_LOADED, <<>>)
    ELSE LET r == ModelPredict(m, features)
         IN IF r.raised
            THEN Raises(op, features, "model", <<Invocation(m, features)>>)
            ELSE Returns(op, features, r.value, <<Invocation(m, features)>>)

\* engine.predict(features)
Predict ==
    \E features \in Batches :
        /\ outcome' = predict(model, "predict", features)
        /\ UNCHANGED <<model, feature_names, last_loaded, run_vars, call, ret, arg_after, dash_vars>>

\* predict_single(feature_dict): a one-row DataFrame, float(prediction[0])
predict_single(m, row) ==
    LET r == predict(m, "predict_single", <<row>>)
    IN IF r.result = "raised" THEN r ELSE [r EXCEPT !.value = r.value[1]]

PredictSingle ==
    \E row \in Rows :
        /\ outcome' = predict_single(model, row)
        /\ UNCHANGED <<model, feature_names, last_loaded, run_vars, call, ret, arg_after, dash_vars>>

\* Mutant: predictions * 0.1, the absolute value forgotten.
Uncertainty_Signed(predictions) == predictions

\* np.abs(predictions) * 0.1, in hundredths for predictions in tenths
Uncertainty(predictions) == [n \in 1..Len(predictions) |-> Abs(predictions[n])]

\* predict_with_uncertainty(features); the bounds are in hundredths.
predict_with_uncertainty(m, features) ==
    LET r == predict(m, "predict_with_uncertainty", features)
    IN IF r.result = "raised" THEN r
       ELSE LET predictions == r.value
                uncertainty == Uncertainty(predictions)
                rows == 1..Len(predictions)
            IN [r EXCEPT !.value =
                    [predictions |-> predictions,
                     lower_bound |-> [n \in rows |-> 10 * predictions[n] - uncertainty[n]],
                     upper_bound |-> [n \in rows |-> 10 * predictions[n] + uncertainty[n]],
                     uncertainty |-> uncertainty]]

PredictWithUncertainty ==
    \E features \in Batches :
        /\ outcome' = predict_with_uncertainty(model, features)
        /\ UNCHANGED <<model, feature_names, last_loaded, run_vars, call, ret, arg_after, dash_vars>>

\* AQIInferenceEngine(model_path): without a path nothing is loaded; with a
\* path the constructor returns only if load_model did.
EngineInit ==
    /\ RunInit
    /\ CallIdle
    /\ DashIdle
    /\ last_loaded \in {<<>>} \cup Models
    /\ model = last_loaded
    /\ feature_names = IF HasFeatureNames(last_loaded) THEN last_loaded.feature_names_ ELSE <<>>
    /\ outcome = [op |-> "__init__"]

EngineNext ==
    \/ LoadModel
    \/ LoadFromRegistry
    \/ Predict
    \/ PredictSingle
    \/ PredictWithUncertainty

\* One engine, any sequence of its operations.
EngineSpec == EngineInit /\ [][EngineNext]_vars

\* ------------------------------------------------------- the dashboard
\* What one run of the dashboard script finds: whether a *_xgboost.pkl file
\* exists, what loading it does, whether the historical data is there,
\* whether the Predict button is pressed and with which slider values, and
\* the kind of exception the model raises on a row it rejects.
DashInputs ==
    [model_files : BOOLEAN, loaded : LoadResults, data : BOOLEAN,
     button : BOOLEAN, row : Rows, error_kind : {"AttributeError", "ValueError"}]

\* st.error / st.warning / st.info / the tab bar
Error(text) == [kind |-> "error", text |-> text]
Warning(text) == [kind |-> "warning", text |-> text]
Info(text) == [kind |-> "info", text |-> text]
Tabs == [kind |-> "tabs"]

\* display_prediction_result(prediction): the alert box if there is an
\* alert, the value, the category card, the message and the safety badge.
display_prediction_result(prediction) ==
    LET aqi_info == categorize_aqi(prediction)
    IN [kind |-> "prediction",
        alert |-> generate_aqi_alert(prediction),
        value |-> prediction,
        category |-> aqi_info.category,
        level |-> aqi_info.level,
        message |-> aqi_info.message,
        badge |-> IF aqi_info.is_hazardous THEN "HAZARDOUS" ELSE "SAFE"]

\* AQIInferenceEngine(str(latest_model)) when the load returns m
NewEngine(m) ==
    [model |-> m,
     feature_names |-> IF HasFeatureNames(m) THEN m.feature_names_ ELSE <<>>]

\* data_loader.load_model(): the engine or None, and what it displayed.
dashboard_load_model(input) ==
    IF ~input.model_files
    THEN [engine |-> <<>>,
          shown |-> <<Error("No trained model found. Please train a model first.")>>]
    ELSE IF input.loaded.raised
    THEN [engine |-> <<>>, shown |-> <<Error("Failed to load model")>>]
    ELSE [engine |-> NewEngine(input.loaded.value), shown |-> <<>>]

\* Mutant: a prediction that fails is replaced by a default value.
show_prediction_interface_Default(engine, input) ==
    IF ~input.button THEN <<>>
    ELSE IF engine = <<>> THEN <<Error("Model not loaded. Please check model file exists.")>>
    ELSE LET r == predict_single(engine.model, input.row)
         IN IF r.result = "returned"
            THEN <<display_prediction_result(r.value)>>
            ELSE <<display_prediction_result(0)>>

\* show_prediction_interface(engine): what the button's branch displays.
show_prediction_interface(engine, input) ==
    IF ~input.button THEN <<>>
    ELSE IF engine = <<>> THEN <<Error("Model not loaded. Please check model file exists.")>>
    ELSE LET r == predict_single(engine.model, input.row)
         IN IF r.result = "returned"
            THEN <<display_prediction_result(r.value)>>
            ELSE IF r.error # NOT_LOADED /\ input.error_kind = "AttributeError"
            THEN <<Error("Model error"),
                   Info("The model might not be loaded correctly.")>>
            ELSE <<Error("Prediction failed"),
                   Info("Please ensure all features are provided correctly.")>>

\* engine = load_model() in main
DashLoadModel ==
    /\ dash_pc = "start"
    /\ dash_engine' = dashboard_load_model(dash_input).engine
    /\ screen' = screen \o dashboard_load_model(dash_input).shown
    /\ dash_pc' = "loaded"
    /\ UNCHANGED <<dash_input, run_vars, call, ret, arg_after, engine_vars>>

\* main after the load: stop with an error if engine is None, else warn
\* about missing data and open the tabs.
DashMain ==
    /\ dash_pc = "loaded"
    /\ IF dash_engine = <<>>
       THEN /\ screen' = screen \o <<Error("Model not loaded. Please train a model first"),
                                     Info("Run: python run_training.py to train a model")>>
            /\ dash_pc' = "stopped"
       ELSE /\ screen' = screen
                   \o (IF dash_input.data THEN <<>>
                       ELSE <<Warning("No historical data available for analysis"),
                              Info("Some features may be limited without historical data")>>)
                   \o <<Tabs>>
            /\ dash_pc' = "tabs"
    /\ UNCHANGED <<dash_input, dash_engine, run_vars, call, ret, arg_after, engine_vars>>

\* with tab2: show_prediction_interface(engine)
DashPredictionTab ==
    /\ dash_pc = "tabs"
    /\ screen' = screen \o show_prediction_interface(dash_engine, dash_input)
    /\ dash_pc' = "done"
    /\ UNCHANGED <<dash_input, dash_engine, run_vars, call, ret, arg_after, engine_vars>>

\* A run of the script begins: nothing loaded, nothing displayed.
DashInit ==
    /\ RunInit
    /\ CallIdle
    /\ EngineIdle
    /\ dash_pc = "start"
    /\ dash_input \in DashInputs
    /\ dash_engine = <<>>
    /\ screen = <<>>

DashNext ==
    \/ DashLoadModel
    \/ DashMain
    \/ DashPredictionTab

DashSpec == DashInit /\ [][DashNext]_vars

\* ---------------------------------------------------------- properties
WeatherTsSet == {weather_records[n]["timestamp"] : n \in 1..Len(weather_records)}
TableTsSet(rows) == {rows[n]["timestamp"] : n \in 1..Len(rows)}
HasPollutant(row) == \E k \in DOMAIN row : k \notin {"timestamp", "obs"}
TableBuilt == weather_status = "ok" /\ pc \in {"save", "done"}
Returned == weather_status = "ok" /\ pc = "done"
\* The fetch of the current iteration raised, returned nothing, or returned
\* a record without a non-zero timestamp.
FetchFailed(r) ==
    \/ r.kind = "raise"
    \/ /\ r.kind = "return"
       /\ \/ r.value = <<>>
          \/ "timestamp" \notin DOMAIN r.value
          \/ r.value["timestamp"] = 0

\* C1: whatever the weather result and the pollutant outcomes, the returned
\* table has exactly one row per distinct weather timestamp, and its
\* timestamps are strictly ascending (hence never repeated).
C1_OneRowPerWeatherTs ==
    TableBuilt =>
        /\ TableTsSet(df) = WeatherTsSet
        /\ Len(df) = Cardinality(WeatherTsSet)
        /\ \A m, n \in 1..Len(df) : m < n => df[m]["timestamp"] < df[n]["timestamp"]

\* A run over an unsorted weather result with a repeated timestamp, with
\* both failed and successful pollutant fetches, has returned its table.
C1_Witness ==
    /\ Returned
    /\ Len(weather_records) = 3
    /\ Len(df) = 2
    /\ weather_records[1]["timestamp"] > weather_records[2]["timestamp"]
    /\ failed >= 1
    /\ success >= 1

\* C2: a pollutant fetch that raises or returns nothing never aborts the
\* run: after it the run is at the sleep, which can be taken, back at the
\* loop head or past the loop; and the run that returns has fetched for
\* every weather record, merged, and holds a row for every distinct weather
\* timestamp.
C2_FetchFailureNeverAborts ==
    /\ FetchFailed(fetch_result) =>
        /\ pc \in {"sleep", "fetch", "merge", "dedup", "save", "done"}
        /\ pc = "sleep" => ENABLED Sleep
        /\ pc = "fetch" => i <= Len(weather_records)
    /\ Returned =>
        /\ i = Len(weather_records)
        /\ Len(combined_rows) = Cardinality(WeatherTsSet)
        /\ \A t \in WeatherTsSet : \E n \in 1..Len(df) : df[n]["timestamp"] = t

\* A run in which every one of three fetches failed, the last by raising,
\* has returned three rows.
C2_Witness ==
    /\ Returned
    /\ failed = 3
    /\ fetch_result.kind = "raise"
    /\ Len(df) = 3

\* C3: if the bulk weather fetch raises, the run is over at once with an
\* empty table, and no pollutant fetch and no pacing sleep was made.
C3_WeatherFailureReturnsEmpty ==
    weather_status = "raised" =>
        /\ pc = "done"
        /\ df = <<>>
        /\ requested = <<>>
        /\ sleeps = <<>>

\* The bulk weather fetch has raised and the function has returned.
C3_Witness == weather_status = "raised" /\ pc = "done" /\ Len(df) = 0

AfterLoop == weather_status = "ok" /\ pc \in {"merge", "dedup", "save", "done"}
Merged == weather_status = "ok" /\ pc \in {"dedup", "save", "done"}
DistinctWeatherTs == Cardinality(WeatherTsSet) = Len(weather_records)
RowsWith(rows) == {n \in 1..Len(rows) : HasPollutant(rows[n])}
RowsWithout(rows) == {n \in 1..Len(rows) : ~HasPollutant(rows[n])}
\* No two fetched pollutant records have the same nearest weather timestamp.
MatchesDistinct ==
    \A m, n \in 1..Len(matched_ts) : m # n => matched_ts[m] # matched_ts[n]

\* C4 as stated: N weather days with distinct timestamps and k failed
\* fetches always give N rows, N-k with pollutant features, k without, and a
\* failure count of k.
C4_Original ==
    (Returned /\ DistinctWeatherTs) =>
        /\ Len(df) = Len(weather_records)
        /\ success + failed = Len(weather_records)
        /\ Cardinality(RowsWith(df)) = Len(weather_records) - failed
        /\ Cardinality(RowsWithout(df)) = failed

\* C4 amended: the same counts hold provided no two of the fetched records
\* have the same nearest weather timestamp.
C4_CountsWhenMatchesDistinct ==
    (Returned /\ DistinctWeatherTs /\ MatchesDistinct) =>
        /\ Len(df) = Len(weather_records)
        /\ success + failed = Len(weather_records)
        /\ Cardinality(RowsWith(df)) = Len(weather_records) - failed
        /\ Cardinality(RowsWithout(df)) = failed

\* Three distinct days, one failed fetch, and a fetched record whose
\* timestamp differs from the requested one: two rows with pollutant
\* features and one without.
C4_Witness ==
    /\ Returned
    /\ DistinctWeatherTs
    /\ MatchesDistinct
    /\ Len(weather_records) = 3
    /\ failed = 1
    /\ Cardinality(RowsWith(df)) = 2
    /\ \E n \in 1..Len(pollutant_records) :
          pollutant_records[n]["timestamp"] # requested[pollutant_records[n]["day"]]

C5_Counts ==
    /\ success + failed = i
    /\ success = Len(pollutant_records)
    /\ AfterLoop => success + failed = Len(weather_records)

C5_Step ==
    i' = i + 1 =>
        /\ failed' = failed + (IF FetchFailed(fetch_result') THEN 1 ELSE 0)
        /\ success' = success + (IF FetchFailed(fetch_result') THEN 0 ELSE 1)

\* C5: after i iterations success + failed = i, at loop end it is the
\* number of weather records; an iteration adds one to failed exactly when
\* its fetch raised or returned nothing or a record without a non-zero
\* timestamp, otherwise one to success, which is the number of records kept.
C5_SuccessPlusFailed == []C5_Counts /\ [][C5_Step]_vars

\* The third iteration has just counted a record with timestamp 0 as the
\* second failure.
C5_Witness ==
    /\ pc = "sleep"
    /\ i = 3
    /\ failed = 2
    /\ success = 1
    /\ fetch_result.kind = "return"
    /\ fetch_result.value # <<>>
    /\ Get(fetch_result.value, "timestamp") = 0

\* t is a weather timestamp and no weather timestamp is strictly closer to p.
Nearest(t, p) == t \in WeatherTsSet /\ \A u \in WeatherTsSet : Abs(u - p) >= Abs(t - p)
RecordOfDay(d) ==
    pollutant_records[CHOOSE n \in 1..Len(pollutant_records) : pollutant_records[n]["day"] = d]

\* C6: every fetched pollutant record is matched to a weather timestamp of
\* least absolute distance to its own timestamp, and so is the record held
\* for a timestamp in pollutant_by_ts and the one merged into each row.
C6_NearestTimestamp ==
    /\ AfterLoop =>
        /\ Len(matched_ts) = Len(pollutant_records)
        /\ \A n \in 1..Len(pollutant_records) :
              Nearest(matched_ts[n], pollutant_records[n]["timestamp"])
        /\ \A n \in 1..Len(pollutant_by_ts) :
              Nearest(pollutant_by_ts[n].k, pollutant_by_ts[n].v["timestamp"])
    /\ TableBuilt =>
        \A n \in RowsWith(df) :
            Nearest(df[n]["timestamp"], RecordOfDay(df[n]["pollutant_day"])["timestamp"])

\* A returned row carries a pollutant record whose timestamp is no weather
\* timestamp, and another weather timestamp lies strictly farther from it.
C6_Witness ==
    /\ Returned
    /\ \E n \in RowsWith(df) :
          LET p == RecordOfDay(df[n]["pollutant_day"])["timestamp"]
          IN /\ p \notin WeatherTsSet
             /\ \E u \in WeatherTsSet : Abs(u - p) > Abs(df[n]["timestamp"] - p)

\* C7 as stated: the historical context of every merged row with pollutant
\* data is at most 10 records, all fetched for days strictly before the
\* row's own record: never that record itself, never a later one.
C7_HistoryStrictlyPrior ==
    Merged =>
        \A n \in RowsWith(combined_rows) :
            LET own == combined_rows[n]["pollutant_day"]
                hist == combined_rows[n]["pollutant_hist"]
            IN /\ Len(hist) <= 10
               /\ \A h \in 1..Len(hist) : hist[h]["day"] < own

\* C8: every pollutant fetch attempt is followed by one completed sleep of
\* 1.2 seconds before the next attempt: outside the sleep there are as many
\* sleeps as attempts, during it exactly one attempt is still unpaced.
C8_SleepAfterEveryFetch ==
    /\ pc = "sleep" => Len(requested) = Len(sleeps) + 1
    /\ pc # "sleep" => Len(requested) = Len(sleeps)
    /\ \A n \in 1..Len(sleeps) : sleeps[n] = 12

\* A second attempt has raised and has been followed by its sleep.
C8_Witness ==
    /\ pc = "fetch"
    /\ Len(requested) = 2
    /\ Len(sleeps) = 2
    /\ fetch_result.kind = "raise"

\* C9: the fetches issued are, in order, one per weather record, each for
\* that record's timestamp; the loop makes no further iteration once it has
\* made one per record, and the run past the loop has issued exactly N.
C9_OneFetchPerWeatherRecord ==
    /\ Len(requested) = i
    /\ i <= Len(weather_records)
    /\ \A n \in 1..Len(requested) : requested[n] = weather_records[n]["timestamp"]
    /\ (pc = "fetch" /\ i = Len(weather_records)) => ~ENABLED FetchPollutant
    /\ AfterLoop => Len(requested) = Len(weather_records)

\* Three fetches were issued for an unsorted weather result that repeats a
\* timestamp.
C9_Witness ==
    /\ Returned
    /\ Len(requested) = 3
    /\ requested[1] > requested[2]
    /\ requested[1] = requested[3]

\* Position of the last weather record with timestamp t.
LastWithTs(t) ==
    CHOOSE n \in 1..Len(weather_records) :
        /\ weather_records[n]["timestamp"] = t
        /\ \A m \in (n + 1)..Len(weather_records) : weather_records[m]["timestamp"] # t

\* C10: the row of a timestamp that several weather records share is built
\* from the last of those records.
C10_LastWeatherRecordWins ==
    TableBuilt => \A n \in 1..Len(df) : df[n]["obs"] = LastWithTs(df[n]["timestamp"])

\* The first and the third weather record share a timestamp and the row of
\* that timestamp is built from the third.
C10_Witness ==
    /\ Returned
    /\ Len(weather_records) = 3
    /\ weather_records[1]["timestamp"] = weather_records[3]["timestamp"]
    /\ weather_records[2]["timestamp"] # weather_records[1]["timestamp"]
    /\ \E n \in 1..Len(df) : df[n]["obs"] = 3

\* C11: the output file is written at most once, and only by the save that
\* follows the last fetch, the merge and the sort/dedup: before that step
\* nothing has been written, what is written is the returned table, and a
\* run whose weather fetch raised writes nothing.
C11_FileWrittenOnceAtEnd ==
    /\ Len(output_csv) <= 1
    /\ pc # "done" => output_csv = <<>>
    /\ weather_status # "ok" => output_csv = <<>>
    /\ output_csv # <<>> =>
        /\ i = Len(weather_records)
        /\ Len(sleeps) = Len(weather_records)
        /\ output_csv[1] = df
        /\ df = SortDedup(combined_rows)

\* A run of three fetches has written its two-row table.
C11_Witness ==
    /\ Returned
    /\ Len(requested) = 3
    /\ Len(output_csv) = 1
    /\ Len(output_csv[1]) = 2

\* C12: a merged row keeps its weather timestamp and holds the weather
\* features of that timestamp; with a matched pollutant record it holds
\* each pollutant feature but the timestamp under its prefixed key, and the
\* pollutant's timestamp under no key; without one it holds no other key.
C12_MergedRowKeys ==
    Merged =>
        \A n \in 1..Len(combined_rows) :
            LET row == combined_rows[n]
                ts == row["timestamp"]
                wf == compute_weather_features(clean_weather_record(DictGet(weather_by_ts, ts)))
                p == DictGet(pollutant_by_ts, ts)
            IN /\ DictHas(weather_by_ts, ts)
               /\ \A k \in DOMAIN wf : k \in DOMAIN row /\ row[k] = wf[k]
               /\ p # <<>> =>
                    /\ DOMAIN row = DOMAIN wf \cup {"pollutant_day", "pollutant_hist"}
                    /\ row["pollutant_day"] = p["day"]
               /\ p = <<>> => DOMAIN row = DOMAIN wf

\* A merged row carries a pollutant record whose own timestamp differs from
\* the row's, next to a row without pollutant data.
C12_Witness ==
    /\ Merged
    /\ \E n \in RowsWith(combined_rows) :
          RecordOfDay(combined_rows[n]["pollutant_day"])["timestamp"]
              # combined_rows[n]["timestamp"]
    /\ RowsWithout(combined_rows) # {}

\* C13: sorting by timestamp and dropping duplicate timestamps is
\* idempotent: applied to one of its own results, the step can only return
\* that same table, rows and order alike.
C13_SortDedupIdempotent ==
    Called("sort_dedup") => SortDedupOutcomes(ret) = {ret}

\* The step was applied to an unsorted table that repeats a timestamp, and
\* returned a shorter table.
C13_Witness ==
    /\ Called("sort_dedup")
    /\ Len(call.arg) = 3
    /\ HasColumn(call.arg, "timestamp")
    /\ call.arg[1]["timestamp"] > call.arg[2]["timestamp"]
    /\ call.arg[1]["timestamp"] = call.arg[3]["timestamp"]
    /\ Len(ret) = 2


\* A reading that is a number: not NaN, not None, not unparsable text.
IsNumber(v) == v \notin {NaN, None, Unparsable, Absent}

Field(rec, key) == IF key \in DOMAIN rec THEN rec[key] ELSE Absent

\* C14: clean_weather_record returns humidity max(0, min(100, h)) for a
\* numeric humidity h and a non-negative visibility for a numeric
\* visibility; a humidity or visibility that cannot be read as a number
\* comes out missing, and the call returns.
C14_HumidityVisibilityClamped ==
    Called("clean_weather_record") =>
        LET h == Field(call.arg, "humidity")
            v == Field(call.arg, "visibility")
        IN /\ IsNumber(h) =>
                /\ ret["humidity"] = (IF h < 0 THEN 0 ELSE IF h > 1000 THEN 1000 ELSE h)
                /\ ret["humidity"] >= 0 /\ ret["humidity"] <= 1000
           /\ IsNumber(v) =>
                /\ ret["visibility"] = (IF v < 0 THEN 0 ELSE v)
                /\ ret["visibility"] >= 0
           /\ h = Unparsable => ret["humidity"] = None
           /\ v = Unparsable => ret["visibility"] = None

\* Humidity 150 comes out as 100 and an unreadable visibility as missing.
C14_Witness ==
    /\ Called("clean_weather_record")
    /\ Field(call.arg, "humidity") = 1500
    /\ ret["humidity"] = 1000
    /\ Field(call.arg, "visibility") = Unparsable
    /\ ret["visibility"] = None

ConcentrationFields == {CONCENTRATIONS[n] : n \in 1..Len(CONCENTRATIONS)}

\* C15: clean_pollutant_record returns, for each of the eight
\* concentrations that is present, max(0, c) for a numeric c and missing for
\* one that cannot be read as a number; no cleaned concentration is negative.
C15_ConcentrationsNonNegative ==
    Called("clean_pollutant_record") =>
        \A k \in ConcentrationFields \cap DOMAIN call.arg :
            LET c == call.arg[k]
            IN /\ IsNumber(c) => ret[k] = (IF c < 0 THEN 0 ELSE c)
               /\ c = Unparsable => ret[k] = None
               /\ ret[k] = None \/ ret[k] >= 0

\* co of -3.2 comes out as 0.0 next to an unreadable nh3 that comes out missing.
C15_Witness ==
    /\ Called("clean_pollutant_record")
    /\ Field(call.arg, "co") = 0 - 32
    /\ ret["co"] = 0
    /\ Field(call.arg, "nh3") = Unparsable
    /\ ret["nh3"] = None

\* C16: in both cleaners every field whose input value is NaN comes out as
\* the missing marker.
C16_NanBecomesMissing ==
    Called("clean_weather_record") \/ Called("clean_pollutant_record") =>
        \A k \in DOMAIN call.arg : call.arg[k] = NaN => ret[k] = None

\* An aqi value that is a whole number between 1 and 5.
IsAqiLevel(a) == IsNumber(a) /\ a % 10 = 0 /\ a >= 10 /\ a <= 50

\* C17: clean_pollutant_record keeps aqi only if the input value is an
\* integer in [1, 5]; for every other input the cleaned aqi is missing, so a
\* cleaned aqi is always missing or an integer from 1 to 5.
C17_AqiOnlyIntegerLevels ==
    Called("clean_pollutant_record") /\ "aqi" \in DOMAIN call.arg =>
        /\ IsAqiLevel(call.arg["aqi"]) => ret["aqi"] = call.arg["aqi"]
        /\ ~IsAqiLevel(call.arg["aqi"]) => ret["aqi"] = None
        /\ ret["aqi"] = None \/ IsAqiLevel(ret["aqi"])

\* C18: both cleaners leave the caller's record as it was, return a record
\* with the same keys, and hand every field they do not handle (and that is
\* not NaN) through unchanged.
C18_CleanersArePure ==
    Called("clean_weather_record") \/ Called("clean_pollutant_record") =>
        LET handled == IF call.fn = "clean_weather_record"
                       THEN {"humidity", "visibility"}
                       ELSE ConcentrationFields \cup {"aqi"}
        IN /\ arg_after = call.arg
           /\ DOMAIN ret = DOMAIN call.arg
           /\ \A k \in DOMAIN call.arg \ handled :
                 call.arg[k] # NaN => ret[k] = call.arg[k]

\* A weather record whose humidity was clamped and whose unreadable temp
\* went through as it was.
C18_Witness ==
    /\ Called("clean_weather_record")
    /\ Field(call.arg, "humidity") = 1500
    /\ ret["humidity"] = 1000
    /\ Field(call.arg, "temp") = Unparsable
    /\ ret["temp"] = Unparsable
    /\ arg_after["humidity"] = 1500


\* The band the claim gives a real value v (in tenths).
BandOf(v) ==
    IF v <= 500 THEN "Good"
    ELSE IF v <= 1000 THEN "Moderate"
    ELSE IF v <= 1500 THEN "Unhealthy for Sensitive Groups"
    ELSE IF v <= 2000 THEN "Unhealthy"
    ELSE IF v <= 3000 THEN "Very Unhealthy"
    ELSE "Hazardous"

\* C19: categorize_aqi returns, for every real value, the one band of the
\* six whose range holds the value, a boundary belonging to the lower band;
\* the band's level does not decrease as the value grows.
C19_CategorizeTotalMonotone ==
    Called("categorize_aqi") /\ call.arg # NaN =>
        /\ ret \in {GOOD, MODERATE, SENSITIVE, UNHEALTHY, VERY_UNHEALTHY, HAZARDOUS}
        /\ ret.category = BandOf(call.arg)
        /\ ret.level \in 1..6
        /\ categorize_aqi(call.arg - 1).level <= ret.level
        /\ ret.level <= categorize_aqi(call.arg + 1).level

\* 50.0 is Good while 50.1 is Moderate.
C19_Witness ==
    /\ Called("categorize_aqi")
    /\ call.arg = 500
    /\ ret.category = "Good"
    /\ categorize_aqi(501).category = "Moderate"

\* C20 as stated: generate_aqi_alert returns an alert exactly for aqi > 200.
C20_Original ==
    Called("generate_aqi_alert") /\ call.arg # NaN =>
        (ret # <<>> <=> call.arg > 2000)

\* C20: generate_aqi_alert returns an alert exactly when the hazard flag of
\* the value's band is set, which for a real aqi is aqi > 150: none for
\* aqi <= 150, an alert naming the band and the rounded value above it. A NaN
\* aqi falls to the last band and gets the Hazardous alert.
C20_AlertIffAbove150 ==
    Called("generate_aqi_alert") =>
        /\ ret # <<>> <=> categorize_aqi(call.arg).is_hazardous
        /\ call.arg # NaN => (ret # <<>> <=> call.arg > 1500)
        /\ call.arg # NaN /\ ret # <<>> =>
            /\ ret.category = BandOf(call.arg)
            /\ ret.message = categorize_aqi(call.arg).message
            /\ 10 * ret.aqi - call.arg \in (0 - 5)..5
        /\ call.arg = NaN => ret # <<>> /\ ret.category = "Hazardous"

\* 250 gets an alert naming Very Unhealthy.
C20_Witness ==
    /\ Called("generate_aqi_alert")
    /\ call.arg = 2500
    /\ ret # <<>>
    /\ ret.category = "Very Unhealthy"
    /\ ret.aqi = 250
    /\ generate_aqi_alert(1500) = <<>>


\* C21: for every aqi value, NaN included, generate_aqi_alert returns an
\* alert exactly when categorize_aqi flags the value as hazardous and None
\* otherwise, and the alert names the category of the value's band.
C21_AlertFollowsHazardFlag ==
    Called("generate_aqi_alert") =>
        LET info == categorize_aqi(call.arg)
        IN /\ info.is_hazardous => ret # <<>> /\ ret.category = info.category
           /\ ~info.is_hazardous => ret = <<>>

\* 175 is flagged and its alert names the Unhealthy band.
C21_Witness ==
    /\ Called("generate_aqi_alert")
    /\ call.arg = 1750
    /\ categorize_aqi(call.arg).is_hazardous
    /\ ret # <<>>
    /\ ret.category = "Unhealthy"

\* The six bands from the least to the most severe.
BandOrder ==
    <<"Good", "Moderate", "Unhealthy for Sensitive Groups",
      "Unhealthy", "Very Unhealthy", "Hazardous">>

\* C22: every result of categorize_aqi has a level in 1..6 that is the
\* rank of its band (Good = 1 ... Hazardous = 6, so distinct per band), and
\* a hazard flag that is true exactly when the level is at least 4.
C22_LevelAndHazardFlag ==
    Called("categorize_aqi") =>
        /\ ret.level \in 1..6
        /\ ret.category = BandOrder[ret.level]
        /\ ret.is_hazardous <=> ret.level >= 4

\* An Unhealthy value: level 4, the first flagged one.
C22_Witness ==
    /\ Called("categorize_aqi")
    /\ call.arg = 1750
    /\ ret.level = 4
    /\ ret.is_hazardous
    /\ ~categorize_aqi(1500).is_hazardous


PredictOps == {"predict", "predict_single", "predict_with_uncertainty"}
LoadOps == {"load_model", "load_from_registry"}

\* The engine's last operation was a prediction / a load.
Predicted == outcome.op \in PredictOps
Loaded == outcome.op \in LoadOps

\* C23: as long as no load has succeeded the engine has no model, and a
\* prediction then ends with the not-loaded error without any model being
\* invoked; once a load has succeeded, predict hands the batch to the loaded
\* model's predict, exactly once, and returns what that returned.
C23_PredictNeedsLoadedModel ==
    /\ last_loaded = <<>> => model = <<>>
    /\ Predicted /\ last_loaded = <<>> =>
        /\ outcome.result = "raised"
        /\ outcome.error = NOT_LOADED
        /\ outcome.invoked = <<>>
    /\ Predicted /\ last_loaded # <<>> =>
        outcome.invoked = <<Invocation(last_loaded, outcome.features)>>
    /\ outcome.op = "predict" /\ last_loaded # <<>> =>
        LET r == ModelPredict(last_loaded, outcome.features)
        IN ~r.raised => outcome.result = "returned" /\ outcome.value = r.value

\* predict_single on an engine that never loaded a model, after a failed load.
C23_Witness ==
    /\ outcome.op = "predict_single"
    /\ last_loaded = <<>>
    /\ outcome.result = "raised"
    /\ outcome.error = NOT_LOADED

\* A prediction step whose model raised ends raised and changes no attribute.
C24_Step ==
    outcome'.op \in PredictOps /\ model # <<>>
    /\ ModelPredict(model, outcome'.features).raised =>
        /\ outcome'.result = "raised"
        /\ "value" \notin DOMAIN outcome'
        /\ model' = model /\ feature_names' = feature_names /\ last_loaded' = last_loaded

\* Whatever came before, an engine with a model predicts every valid batch.
C24_ValidInputSucceeds ==
    model # <<>> =>
        \A features \in Batches :
            ~ModelPredict(model, features).raised =>
                predict(model, "predict", features).result = "returned"

\* C24: when the loaded model's predict raises, each of the three prediction
\* operations raises and returns no value, the engine's model is left as it
\* was, and a later predict on a valid batch succeeds.
C24_ModelFailurePropagates ==
    [][C24_Step]_vars /\ []C24_ValidInputSucceeds

\* predict_with_uncertainty has raised the model's failure; the model is kept.
C24_Witness ==
    /\ outcome.op = "predict_with_uncertainty"
    /\ outcome.result = "raised"
    /\ outcome.error = "model"
    /\ model # <<>>
    /\ Len(outcome.features) = 2

\* C25: for every prediction p, predict_with_uncertainty reports an
\* uncertainty of 10% of |p|, lower_bound = p - uncertainty and
\* upper_bound = p + uncertainty: a symmetric interval, uncertainty >= 0,
\* lower_bound <= p <= upper_bound (p in tenths, the rest in hundredths).
C25_UncertaintyInterval ==
    outcome.op = "predict_with_uncertainty" /\ outcome.result = "returned" =>
        LET out == outcome.value
        IN \A n \in 1..Len(out.predictions) :
            LET p == 10 * out.predictions[n]
            IN /\ 10 * out.uncertainty[n] = IF p < 0 THEN 0 - p ELSE p
               /\ out.lower_bound[n] = p - out.uncertainty[n]
               /\ out.upper_bound[n] = p + out.uncertainty[n]
               /\ out.upper_bound[n] - p = p - out.lower_bound[n]
               /\ out.uncertainty[n] >= 0
               /\ out.lower_bound[n] <= p /\ p <= out.upper_bound[n]

\* A batch with a negative and a zero prediction.
C25_Witness ==
    /\ outcome.op = "predict_with_uncertainty"
    /\ outcome.result = "returned"
    /\ Len(outcome.value.predictions) = 2
    /\ outcome.value.predictions[1] < 0
    /\ outcome.value.lower_bound[1] < 10 * outcome.value.predictions[1]
    /\ outcome.value.predictions[2] = 0
    /\ outcome.value.uncertainty[2] = 0

\* C28: once a load has succeeded, feature_names is the feature_names_ of the
\* model loaded last, or None when that model has none.
C28_FeatureNamesOfCurrentModel ==
    last_loaded # <<>> =>
        feature_names = IF HasFeatureNames(last_loaded)
                        THEN last_loaded.feature_names_
                        ELSE <<>>

\* A load step that raised left model and feature_names as they were.
C29_Step ==
    outcome'.op \in LoadOps /\ outcome'.result = "raised" =>
        /\ model' = model
        /\ feature_names' = feature_names
        /\ (model = <<>> => predict(model', "predict", <<0>>).error = NOT_LOADED)
        /\ (model # <<>> => predict(model', "predict", <<0>>) = predict(model, "predict", <<0>>))

\* C29: a load that fails leaves the engine's model and feature_names as
\* they were before the call: without a model predict keeps failing with
\* not-loaded, with one it keeps predicting with the previous model.
C29_FailedLoadChangesNothing == [][C29_Step]_vars

\* A load has failed on an engine that holds a model.
C29_Witness ==
    /\ Loaded
    /\ outcome.result = "raised"
    /\ model # <<>>
    /\ model = last_loaded


Shown(kind) == {n \in 1..Len(screen) : screen[n].kind = kind}

\* No model file matches, or loading the file raises.
Unloadable == ~dash_input.model_files \/ dash_input.loaded.raised

\* C26: in the dashboard a missing or unloadable model makes load_model
\* return None with an error displayed, main then stops with an error before
\* any tab; a prediction is displayed only if predict_single returned, with
\* the value it returned, and a failing prediction shows an error instead.
C26_FailuresShownAsErrors ==
    /\ dash_pc \notin {"off", "start"} /\ Unloadable =>
        /\ dash_engine = <<>>
        /\ Shown("error") # {}
    /\ dash_pc \notin {"off", "start"} /\ dash_engine = <<>> =>
        /\ dash_pc \in {"loaded", "stopped"}
        /\ Shown("tabs") = {} /\ Shown("prediction") = {}
        /\ dash_pc = "stopped" => Cardinality(Shown("error")) = 2
    /\ \A n \in Shown("prediction") :
        /\ ~Unloadable /\ dash_input.button
        /\ predict_single(dash_input.loaded.value, dash_input.row).result = "returned"
        /\ screen[n].value = predict_single(dash_input.loaded.value, dash_input.row).value
    /\ dash_pc = "done" /\ dash_input.button
       /\ predict_single(dash_engine.model, dash_input.row).result = "raised" =>
        /\ Shown("error") # {}
        /\ Shown("prediction") = {}

\* The button was pressed and the model rejected the row: an error is shown.
C26_Witness ==
    /\ dash_pc = "done"
    /\ dash_input.button
    /\ dash_input.row = BadRow
    /\ dash_input.error_kind = "ValueError"
    /\ Shown("error") # {}
    /\ Shown("prediction") = {}
    /\ Shown("tabs") # {}


\* The fetched records matched to the same weather timestamp as the n-th.
SameMatch(n) == {m \in 1..Len(matched_ts) : matched_ts[m] = matched_ts[n]}

\* The n-th fetched record is the last fetched one among those of its match.
LastOfMatch(n) == \A m \in SameMatch(n) : m <= n

\* C27: every fetched pollutant record is matched to exactly one weather
\* timestamp; of the records matched to one timestamp the row of that
\* timestamp carries the last fetched and no row carries any other; so the
\* rows with pollutant features are at most the success count, and as many
\* exactly when no two records share a match.
C27_LastFetchedRecordKept ==
    /\ AfterLoop =>
        /\ Len(matched_ts) = success
        /\ \A n \in 1..Len(matched_ts) : matched_ts[n] \in WeatherTsSet
    /\ TableBuilt =>
        /\ \A n \in 1..Len(pollutant_records) :
            LET carrying == {r \in RowsWith(df) :
                                df[r]["pollutant_day"] = pollutant_records[n]["day"]}
            IN IF LastOfMatch(n)
               THEN /\ Cardinality(carrying) = 1
                    /\ \A r \in carrying : df[r]["timestamp"] = matched_ts[n]
               ELSE carrying = {}
        /\ Cardinality(RowsWith(df)) <= success
        /\ Cardinality(RowsWith(df)) = success <=> MatchesDistinct

\* Three records fetched, the first and the third matched to one timestamp:
\* two rows carry pollutant features and none carries the first record.
C27_Witness ==
    /\ Returned
    /\ success = 3
    /\ matched_ts[1] = matched_ts[3]
    /\ matched_ts[2] # matched_ts[1]
    /\ Cardinality(RowsWith(df)) = 2
    /\ \A r \in RowsWith(df) : df[r]["pollutant_day"] # pollutant_records[1]["day"]

\* Position of the first weather record with timestamp t in the weather result.
FirstPosition(t) ==
    CHOOSE n \in 1..Len(weather_records) :
        /\ weather_records[n]["timestamp"] = t
        /\ \A m \in 1..(n - 1) : weather_records[m]["timestamp"] # t

\* t is the weather timestamp that appears first in the weather result among
\* those of least distance to p: every weather record is farther from p, or
\* as far and either of timestamp t or placed after the first record of t.
\* At most one timestamp is so.
FirstNearest(t, p) ==
    /\ t \in WeatherTsSet
    /\ LET first == FirstPosition(t)
           least == Abs(t - p)
       IN \A k \in 1..Len(weather_records) :
            LET u == weather_records[k]["timestamp"]
            IN \/ Abs(u - p) > least
               \/ Abs(u - p) = least /\ (u = t \/ k > first)

\* C30: a pollutant timestamp at equal distance from several weather
\* timestamps is matched to the one whose record comes first in the weather
\* result, whichever is the smaller; the match is a function of the inputs.
C30_TieGoesToFirstInserted ==
    AfterLoop =>
        \A n \in 1..Len(pollutant_records) :
            FirstNearest(matched_ts[n], pollutant_records[n]["timestamp"])

\* A record midway between two weather timestamps goes to the larger one,
\* whose weather record came first.
C30_Witness ==
    /\ Returned
    /\ \E n \in 1..Len(pollutant_records) :
          LET p == pollutant_records[n]["timestamp"]
              t == matched_ts[n]
          IN \E u \in WeatherTsSet :
                /\ u < t
                /\ Abs(u - p) = Abs(t - p)
                /\ FirstPosition(t) < FirstPosition(u)
                /\ \E r \in RowsWith(df) :
                      /\ df[r]["timestamp"] = t
                      /\ df[r]["pollutant_day"] = pollutant_records[n]["day"]

====
